---- MODULE Spec2Model ----
(***************************************************************************)
(* Banner QA - Text Zone Validation (src/app.py).                          *)
(*                                                                         *)
(* Numbers.  Normalized coordinates (number_input, format "%.4f") are      *)
(* integers in units of 1/Unit; pixel coordinates are integers; the        *)
(* overlap threshold (slider, step 0.01) is an integer number of           *)
(* hundredths.  int(z * w) is (z * w) \div Unit, and                       *)
(* inter_area / ocr_area >= threshold is compared by cross-multiplying.    *)
(* Strings are sequences of one-character strings.                         *)
(***************************************************************************)
EXTENDS Integers, Sequences, FiniteSets, TLC

VARIABLES
    b1, b2, threshold, overlap_result,        \* one call of box_overlap
    config_file, ignore_file, ignore_zone_file, \* the three JSON files
    call, arg, ret, st_errors,                \* one save / load call
    ss_ignore_zones,                          \* st.session_state["ignore_zones"]
    ss_persistent_ignore_terms,               \* st.session_state["persistent_ignore_terms"]
    ss_ignore_list,                           \* st.session_state.ignore_list
    ss_zone_keys,                             \* st.session_state["<zone>_x" .. "_h"]
    zones, overlap_threshold,                 \* the widgets' values
    events,                                   \* user interactions so far
    img_size, results,                        \* the uploaded image, its OCR detections
    pc, idx, score, penalties, used_zones,    \* the validation run
    abs_zones, abs_ignore_zones, drawn, caption, exception

geomVars == <<b1, b2, threshold, overlap_result>>
fileVars == <<config_file, ignore_file, ignore_zone_file>>
callVars == <<call, arg, ret, st_errors>>
sessVars == <<ss_ignore_zones, ss_persistent_ignore_terms, ss_ignore_list,
              ss_zone_keys, zones, overlap_threshold, events>>
inputVars == <<img_size, results>>
runVars == <<pc, idx, score, penalties, used_zones, abs_zones, abs_ignore_zones,
             drawn, caption, exception>>
vars == <<geomVars, fileVars, callVars, sessVars, inputVars, runVars>>

(* ---------------------------- bounds ----------------------------------- *)
MaxCoord == 2
MaxZones == 2
MaxTerms == 2
MaxIgnoreZones == 2
MaxDetections == 2
MaxEvents == 2
MaxResults == 6

\* Slider positions (hundredths) the checks range over.
Thresholds == {0, 1, 25, 50, 51, 80, 100}

\* Normalized coordinates are multiples of 1/Unit (format "%.4f").
Unit == 10000

(* ---------------------------- helpers ---------------------------------- *)
max(a, b) == IF a >= b THEN a ELSE b
min(a, b) == IF a <= b THEN a ELSE b
SeqsUpTo(S, n) == UNION {[1..k -> S] : k \in 0..n}

(* ------------------- box_overlap (src/app.py 31-42) -------------------- *)
\* A box is <<x, y, w, h>>.  The result is "True", "False", or the
\* exception the division raises when ocr_area is 0.
box_overlap_strict(bx1, bx2, thr) ==
    LET x1 == bx1[1]  y1 == bx1[2]  w1 == bx1[3]  h1 == bx1[4]
        x2 == bx2[1]  y2 == bx2[2]  w2 == bx2[3]  h2 == bx2[4]
        ix1 == max(x1, x2)
        iy1 == max(y1, y2)
        ix2 == min(x1 + w1, x2 + w2)
        iy2 == min(y1 + h1, y2 + h2)
        inter_area == (ix2 - ix1) * (iy2 - iy1)
        ocr_area == w1 * h1
    IN  IF ix2 < ix1 \/ iy2 < iy1 THEN "False"
        ELSE IF ocr_area = 0 THEN "ZeroDivisionError"
        ELSE IF inter_area * 100 >= thr * ocr_area THEN "True" ELSE "False"

box_overlap_below(bx1, bx2, thr) ==
    LET x1 == bx1[1]  y1 == bx1[2]  w1 == bx1[3]  h1 == bx1[4]
        x2 == bx2[1]  y2 == bx2[2]  w2 == bx2[3]  h2 == bx2[4]
        ix1 == max(x1, x2)
        iy1 == max(y1, y2)
        ix2 == min(x1 + w1, x2 + w2)
        iy2 == min(y1 + h1, y2 + h2)
        inter_area == (ix2 - ix1) * (iy2 - iy1)
        ocr_area == w1 * h1
    IN  IF ix2 <= ix1 \/ iy2 <= iy1 THEN "False"
        ELSE IF ocr_area = 0 THEN "ZeroDivisionError"
        ELSE IF inter_area * 100 <= thr * ocr_area THEN "True" ELSE "False"

box_overlap(bx1, bx2, thr) ==
    LET x1 == bx1[1]  y1 == bx1[2]  w1 == bx1[3]  h1 == bx1[4]
        x2 == bx2[1]  y2 == bx2[2]  w2 == bx2[3]  h2 == bx2[4]
        ix1 == max(x1, x2)
        iy1 == max(y1, y2)
        ix2 == min(x1 + w1, x2 + w2)
        iy2 == min(y1 + h1, y2 + h2)
        inter_area == (ix2 - ix1) * (iy2 - iy1)
        ocr_area == w1 * h1
    IN  IF ix2 <= ix1 \/ iy2 <= iy1 THEN "False"
        ELSE IF ocr_area = 0 THEN "ZeroDivisionError"
        ELSE IF ocr_area > 0
             THEN (IF inter_area * 100 >= thr * ocr_area THEN "True" ELSE "False")
             ELSE (IF inter_area * 100 <= thr * ocr_area THEN "True" ELSE "False")


(* --------------------- Python values and JSON -------------------------- *)
\* A Python value: number, str, list, tuple, or dict (keys in insertion
\* order, items[i] the value of keys[i]).
PyNone == [ty |-> "none", n |-> 0, s |-> <<>>, items |-> <<>>, keys |-> <<>>]
PyNum(n) == [ty |-> "num", n |-> n, s |-> <<>>, items |-> <<>>, keys |-> <<>>]
PyStr(s) == [ty |-> "str", n |-> 0, s |-> s, items |-> <<>>, keys |-> <<>>]
PyList(items) == [ty |-> "list", n |-> 0, s |-> <<>>, items |-> items, keys |-> <<>>]
PyTuple(items) == [ty |-> "tuple", n |-> 0, s |-> <<>>, items |-> items, keys |-> <<>>]
PyDict(keys, items) == [ty |-> "dict", n |-> 0, s |-> <<>>, items |-> items, keys |-> keys]

\* JSON text is a sequence of tokens; a string token carries the escaped
\* characters between its quotes.
Punct(c) == [t |-> "punct", s |-> <<c>>, n |-> 0]
NumTok(n) == [t |-> "num", s |-> <<>>, n |-> n]
StrTok(s) == [t |-> "str", s |-> s, n |-> 0]
IsPunct(tk, c) == tk.t = "punct" /\ tk.s = <<c>>

RECURSIVE json_escape(_)
json_escape(s) ==
    IF s = <<>> THEN <<>>
    ELSE (IF Head(s) \in {"\"", "\\"} THEN <<"\\", Head(s)>> ELSE <<Head(s)>>)
         \o json_escape(Tail(s))

\* The text of an escaped string; not ok when an escape is malformed.
RECURSIVE json_unescape(_)
json_unescape(s) ==
    IF s = <<>> THEN [ok |-> TRUE, s |-> <<>>]
    ELSE IF Head(s) = "\"" THEN [ok |-> FALSE, s |-> <<>>]
    ELSE IF Head(s) = "\\"
         THEN IF Len(s) >= 2 /\ s[2] \in {"\"", "\\"}
              THEN LET r == json_unescape(Tail(Tail(s)))
                   IN  [ok |-> r.ok, s |-> <<s[2]>> \o r.s]
              ELSE [ok |-> FALSE, s |-> <<>>]
    ELSE LET r == json_unescape(Tail(s))
         IN  [ok |-> r.ok, s |-> <<Head(s)>> \o r.s]

RECURSIVE json_dump(_)
RECURSIVE dump_items(_, _)
RECURSIVE dump_members(_, _, _)
dump_items(items, i) ==
    IF i > Len(items) THEN <<>>
    ELSE (IF i > 1 THEN <<Punct(",")>> ELSE <<>>)
         \o json_dump(items[i]) \o dump_items(items, i + 1)
dump_members(keys, items, i) ==
    IF i > Len(keys) THEN <<>>
    ELSE (IF i > 1 THEN <<Punct(",")>> ELSE <<>>)
         \o <<StrTok(json_escape(keys[i])), Punct(":")>>
         \o json_dump(items[i]) \o dump_members(keys, items, i + 1)
json_dump(v) ==
    CASE v.ty = "num" -> <<NumTok(v.n)>>
      [] v.ty = "str" -> <<StrTok(json_escape(v.s))>>
      [] v.ty \in {"list", "tuple"} ->
            <<Punct("[")>> \o dump_items(v.items, 1) \o <<Punct("]")>>
      [] v.ty = "dict" ->
            <<Punct("{")>> \o dump_members(v.keys, v.items, 1) \o <<Punct("}")>>

ParseFail == [ok |-> FALSE, val |-> PyNone, next |-> 0]
ParseOk(v, i) == [ok |-> TRUE, val |-> v, next |-> i]

\* dict[key] = value: an existing key keeps its position.
DictSet(d, k, v) ==
    IF \E i \in 1..Len(d.keys) : d.keys[i] = k
    THEN PyDict(d.keys, [i \in 1..Len(d.keys) |->
                            IF d.keys[i] = k THEN v ELSE d.items[i]])
    ELSE PyDict(Append(d.keys, k), Append(d.items, v))

RECURSIVE parse_value(_, _)
RECURSIVE parse_items(_, _, _)
RECURSIVE parse_members(_, _, _)
parse_items(toks, i, acc) ==
    LET r == parse_value(toks, i)
    IN  IF ~r.ok \/ r.next > Len(toks) THEN ParseFail
        ELSE IF IsPunct(toks[r.next], ",")
             THEN parse_items(toks, r.next + 1, Append(acc, r.val))
        ELSE IF IsPunct(toks[r.next], "]")
             THEN ParseOk(PyList(Append(acc, r.val)), r.next + 1)
        ELSE ParseFail
parse_members(toks, i, acc) ==
    IF i + 1 > Len(toks) \/ toks[i].t # "str" \/ ~IsPunct(toks[i + 1], ":")
    THEN ParseFail
    ELSE LET k == json_unescape(toks[i].s)
             r == parse_value(toks, i + 2)
         IN  IF ~k.ok \/ ~r.ok \/ r.next > Len(toks) THEN ParseFail
             ELSE IF IsPunct(toks[r.next], ",")
                  THEN parse_members(toks, r.next + 1, DictSet(acc, k.s, r.val))
             ELSE IF IsPunct(toks[r.next], "}")
                  THEN ParseOk(DictSet(acc, k.s, r.val), r.next + 1)
             ELSE ParseFail
parse_value(toks, i) ==
    IF i > Len(toks) THEN ParseFail
    ELSE LET tk == toks[i]
         IN  CASE tk.t = "num" -> ParseOk(PyNum(tk.n), i + 1)
               [] tk.t = "str" ->
                    LET u == json_unescape(tk.s)
                    IN  IF u.ok THEN ParseOk(PyStr(u.s), i + 1) ELSE ParseFail
               [] IsPunct(tk, "[") ->
                    IF i + 1 <= Len(toks) /\ IsPunct(toks[i + 1], "]")
                    THEN ParseOk(PyList(<<>>), i + 2)
                    ELSE parse_items(toks, i + 1, <<>>)
               [] IsPunct(tk, "{") ->
                    IF i + 1 <= Len(toks) /\ IsPunct(toks[i + 1], "}")
                    THEN ParseOk(PyDict(<<>>, <<>>), i + 2)
                    ELSE parse_members(toks, i + 1, PyDict(<<>>, <<>>))
               [] OTHER -> ParseFail

\* json.load: the whole text must be one value.
json_load(toks) ==
    LET r == parse_value(toks, 1)
    IN  IF r.ok /\ r.next = Len(toks) + 1 THEN r ELSE ParseFail

(* ------------------ the config files (src/app.py 44-89) ---------------- *)
\* A file is absent, or holds a token sequence.
NoFile == [exists |-> FALSE, toks |-> <<>>]
FileOf(toks) == [exists |-> TRUE, toks |-> toks]

\* open(..., "w") then json.dump inside try/except: the write succeeds, or
\* open fails (file untouched), or the dump fails after the file was
\* truncated and `cut` tokens were written.  Any failure is shown by
\* st.error and swallowed.
SaveOutcomes == {"ok", "open_failed", "write_failed"}
write_json(file, v, outcome, cut) ==
    CASE outcome = "ok" -> FileOf(json_dump(v))
      [] outcome = "open_failed" -> file
      [] outcome = "write_failed" -> FileOf(SubSeq(json_dump(v), 1, cut))

CutPoints(v) == 0..(Len(json_dump(v)) - 1)

Returned(v) == [raised |-> "none", val |-> v]
Raised(e) == [raised |-> e, val |-> PyNone]

load_presets(file) ==
    IF file.exists
    THEN LET r == json_load(file.toks)
         IN  IF r.ok THEN Returned(r.val) ELSE Raised("JSONDecodeError")
    ELSE Returned(PyDict(<<>>, <<>>))

load_ignore_terms(file) ==
    IF file.exists
    THEN LET r == json_load(file.toks)
         IN  IF r.ok THEN Returned(r.val) ELSE Raised("JSONDecodeError")
    ELSE Returned(PyList(<<>>))

load_ignore_zones(file) ==
    IF file.exists
    THEN LET r == json_load(file.toks)
         IN  IF r.ok THEN Returned(r.val) ELSE Returned(PyList(<<>>))
    ELSE Returned(PyList(<<>>))

FilesAbsent ==
    /\ config_file = NoFile
    /\ ignore_file = NoFile
    /\ ignore_zone_file = NoFile

NoCall ==
    /\ call = "none"
    /\ arg = PyNone
    /\ ret = Returned(PyNone)
    /\ st_errors = <<>>

(* ----------------- parts of the state a harness leaves idle ------------ *)
Unset == [set |-> FALSE, v |-> <<>>]
SetTo(v) == [set |-> TRUE, v |-> v]

GeomIdle ==
    /\ b1 = <<0, 0, 0, 0>> /\ b2 = <<0, 0, 0, 0>>
    /\ threshold = 0 /\ overlap_result = "pending"

SessionEmpty ==
    /\ ss_ignore_zones = Unset
    /\ ss_persistent_ignore_terms = Unset
    /\ ss_ignore_list = Unset
    /\ ss_zone_keys = <<>>
    /\ zones = <<>>
    /\ overlap_threshold = 80
    /\ events = 0

NoImage ==
    /\ img_size = <<0, 0>>
    /\ results = <<>>

RunIdle ==
    /\ pc = "idle" /\ idx = 0 /\ score = 100 /\ penalties = <<>>
    /\ used_zones = <<>> /\ abs_zones = <<>> /\ abs_ignore_zones = <<>>
    /\ drawn = <<>> /\ caption = 100 /\ exception = "none"

(* ----------------- the validation run (src/app.py 255-342) ------------- *)
\* str.lower() and str.strip() on the characters the detections use.
LowerChar(c) ==
    CASE c = "A" -> "a"
      [] c = "B" -> "b"
      [] OTHER -> c
lower(s) == [k \in 1..Len(s) |-> LowerChar(s[k])]

IsSpace(c) == c = " "
RECURSIVE lstrip(_)
lstrip(s) == IF s # <<>> /\ IsSpace(Head(s)) THEN lstrip(Tail(s)) ELSE s
RECURSIVE rstrip(_)
rstrip(s) ==
    IF s # <<>> /\ IsSpace(s[Len(s)]) THEN rstrip(SubSeq(s, 1, Len(s) - 1)) ELSE s
strip(s) == rstrip(lstrip(s))

detected_text_raw(text) == text

\* line 293
detected_text_of(text) == strip(lower(text))

\* `term in detected_text`
IsSubstring(term, text) ==
    \E k \in 0..(Len(text) - Len(term)) : SubSeq(text, k + 1, k + Len(term)) = term

SetMin(S) == CHOOSE m \in S : \A n \in S : m <= n
SetMax(S) == CHOOSE m \in S : \A n \in S : m >= n

\* lines 294-297: the axis-aligned box of the four corner points
ocr_box_of(bbox) ==
    LET xs == {bbox[k][1] : k \in 1..Len(bbox)}
        ys == {bbox[k][2] : k \in 1..Len(bbox)}
    IN  <<SetMin(xs), SetMin(ys), SetMax(xs) - SetMin(xs), SetMax(ys) - SetMin(ys)>>

\* int(z * w) for a normalized z >= 0
to_px(z, size) == (z * size) \div Unit

\* lines 268-270 and 280
abs_box(rect, size) ==
    <<to_px(rect[1], size[1]), to_px(rect[2], size[2]),
      to_px(rect[3], size[1]), to_px(rect[4], size[2])>>
abs_zones_of(zs, size) ==
    [k \in 1..Len(zs) |-> [name |-> zs[k].name, box |-> abs_box(zs[k].rect, size)]]
abs_ignore_zones_of(izs, size) ==
    [k \in 1..Len(izs) |-> abs_box(izs[k].rect, size)]

\* line 290
used_zones_all(azs) ==
    [k \in 1..Len(azs) |-> [name |-> azs[k].name, used |-> TRUE]]
used_zones_init(azs) ==
    [k \in 1..Len(azs) |-> [name |-> azs[k].name, used |-> FALSE]]

\* line 300
ignore_by_terms_with_list(text, terms, ignore_list) ==
    \E k \in 1..Len(terms \o ignore_list) : IsSubstring((terms \o ignore_list)[k], text)
ignore_by_terms(text, terms, ignore_list) ==
    \E k \in 1..Len(terms) : IsSubstring(terms[k], text)

\* lines 305-310
ignore_by_zones(box, aizs) ==
    \E k \in 1..Len(aizs) :
        /\ box[1] >= aizs[k][1]
        /\ box[2] >= aizs[k][2]
        /\ box[1] + box[3] <= aizs[k][1] + aizs[k][3]
        /\ box[2] + box[4] <= aizs[k][2] + aizs[k][4]

\* lines 317-323: the index of the zone marked, 0 when the loop ends
\* without a match, -1 when box_overlap raises.
RECURSIVE match_zone_last(_, _, _, _, _)
match_zone_last(azs, box, thr, k, found) ==
    IF k > Len(azs) THEN found
    ELSE LET r == box_overlap(box, azs[k].box, thr)
         IN  IF r = "ZeroDivisionError" THEN -1
             ELSE match_zone_last(azs, box, thr, k + 1, IF r = "True" THEN k ELSE found)
match_zone_no_break(azs, box, thr, k) == match_zone_last(azs, box, thr, k, 0)

RECURSIVE match_zone(_, _, _, _)
match_zone(azs, box, thr, k) ==
    IF k > Len(azs) THEN 0
    ELSE LET r == box_overlap(box, azs[k].box, thr)
         IN  IF r = "ZeroDivisionError" THEN -1
             ELSE IF r = "True" THEN k
             ELSE match_zone(azs, box, thr, k + 1)

Penalty(kind, what, pts) == [kind |-> kind, what |-> what, pts |-> pts]

\* lines 330-333: the penalties appended and the score after them
RECURSIVE missing_zones_used(_, _)
missing_zones_used(uz, k) ==
    IF k > Len(uz) THEN <<>>
    ELSE (IF uz[k].used THEN <<Penalty("No text found in", uz[k].name, 10)>> ELSE <<>>)
         \o missing_zones_used(uz, k + 1)
RECURSIVE missing_zones(_, _)
missing_zones(uz, k) ==
    IF k > Len(uz) THEN <<>>
    ELSE (IF ~uz[k].used THEN <<Penalty("No text found in", uz[k].name, 10)>> ELSE <<>>)
         \o missing_zones(uz, k + 1)

\* lines 255-290: the state when the loop over the detections starts
StartRun(zs, izs, size) ==
    /\ abs_zones' = abs_zones_of(zs, size)
    /\ abs_ignore_zones' = abs_ignore_zones_of(izs, size)
    /\ penalties' = <<>>
    /\ score' = 100
    /\ used_zones' = used_zones_init(abs_zones_of(zs, size))
    /\ drawn' = <<>>
    /\ idx' = 1
    /\ pc' = "detections"

\* lines 292-327: one iteration of the loop over the detections
ProcessDetection ==
    /\ pc = "detections"
    /\ idx <= Len(results)
    /\ LET text == results[idx].text
           detected_text == detected_text_of(text)
           ocr_box == ocr_box_of(results[idx].bbox)
           m == match_zone(abs_zones, ocr_box, overlap_threshold, 1)
       IN  IF ignore_by_terms(detected_text, ss_persistent_ignore_terms.v, ss_ignore_list.v)
           THEN /\ drawn' = Append(drawn, <<ocr_box, "blue">>)
                /\ idx' = idx + 1
                /\ UNCHANGED <<pc, score, penalties, used_zones, exception>>
           ELSE IF ignore_by_zones(ocr_box, abs_ignore_zones)
           THEN /\ drawn' = Append(drawn, <<ocr_box, "blue">>)
                /\ idx' = idx + 1
                /\ UNCHANGED <<pc, score, penalties, used_zones, exception>>
           ELSE /\ drawn' = Append(drawn, <<ocr_box, "red">>)
                /\ IF m = -1
                   THEN /\ exception' = "ZeroDivisionError"
                        /\ pc' = "idle"
                        /\ UNCHANGED <<idx, score, penalties, used_zones>>
                   ELSE IF m > 0
                   THEN /\ used_zones' = [used_zones EXCEPT ![m].used = TRUE]
                        /\ idx' = idx + 1
                        /\ UNCHANGED <<pc, score, penalties, exception>>
                   ELSE /\ penalties' = Append(penalties,
                                Penalty("Text outside allowed zones", text, 20))
                        /\ score' = score - 20
                        /\ idx' = idx + 1
                        /\ UNCHANGED <<pc, used_zones, exception>>
    /\ UNCHANGED <<abs_zones, abs_ignore_zones, caption>>
    /\ UNCHANGED <<geomVars, fileVars, callVars, sessVars, inputVars>>

\* lines 329-333: the loop over used_zones
CheckCoverage ==
    /\ pc = "detections"
    /\ idx > Len(results)
    /\ penalties' = penalties \o missing_zones(used_zones, 1)
    /\ score' = score - 10 * Len(missing_zones(used_zones, 1))
    /\ pc' = "report"
    /\ UNCHANGED <<idx, used_zones, abs_zones, abs_ignore_zones, drawn, caption, exception>>
    /\ UNCHANGED <<geomVars, fileVars, callVars, sessVars, inputVars>>

\* lines 335-342: the caption shows the score; the script ends
Report ==
    /\ pc = "report"
    /\ caption' = score
    /\ pc' = "done"
    /\ UNCHANGED <<idx, score, penalties, used_zones, abs_zones, abs_ignore_zones,
                   drawn, exception>>
    /\ UNCHANGED <<geomVars, fileVars, callVars, sessVars, inputVars>>

(* --------- SpecRun: one run over drawn zones, rules and detections ------ *)
Letters == <<"A", "B", "C", "D", "E", "F">>
ZoneName(k) == <<Letters[k]>>

RunZoneRects ==
    {<<0, 0, 5000, 10000>>, <<0, 0, 3333, 10000>>, <<2500, 0, 0, 10000>>}
RunZones ==
    UNION {{[k \in 1..n |-> [name |-> ZoneName(k), rect |-> f[k]]] :
                f \in [1..n -> RunZoneRects]} : n \in 0..MaxZones}
RunIgnoreZones == {<<>>, <<[name |-> <<"z">>, rect |-> <<0, 0, 2500, 10000>>]>>}
RunTerms == {<<>>, <<<<"b", "b">>, <<"a">>>>}
RunThresholds == {0, 50, 100}
RunImageSizes == {<<8, 3>>}
RunBBoxes ==
    {<<<<0, 0>>, <<2, 0>>, <<2, 2>>, <<0, 2>>>>,
     <<<<3, 2>>, <<1, 2>>, <<1, 0>>, <<3, 0>>>>,
     <<<<5, 1>>, <<7, 2>>, <<6, 3>>, <<5, 2>>>>,
     <<<<2, 0>>, <<2, 2>>, <<2, 2>>, <<2, 0>>>>}
RunTexts == {<<" ", "A">>, <<"b">>}
RunDetections == [bbox : RunBBoxes, text : RunTexts]

InitRun ==
    /\ FilesAbsent
    /\ NoCall
    /\ GeomIdle
    /\ ss_ignore_zones \in {SetTo(z) : z \in RunIgnoreZones}
    /\ ss_persistent_ignore_terms \in {SetTo(t) : t \in RunTerms}
    /\ ss_ignore_list = SetTo(<<>>)
    /\ zones \in RunZones
    /\ ss_zone_keys = zones
    /\ events = 0
    /\ overlap_threshold \in RunThresholds
    /\ img_size \in RunImageSizes
    /\ results \in SeqsUpTo(RunDetections, MaxDetections)
    /\ abs_zones = abs_zones_of(zones, img_size)
    /\ abs_ignore_zones = abs_ignore_zones_of(ss_ignore_zones.v, img_size)
    /\ penalties = <<>>
    /\ score = 100
    /\ used_zones = used_zones_init(abs_zones)
    /\ drawn = <<>>
    /\ idx = 1
    /\ pc = "detections"
    /\ caption = 100
    /\ exception = "none"

NextRun ==
    \/ ProcessDetection
    \/ CheckCoverage
    \/ Report

SpecRun == InitRun /\ [][NextRun]_vars

(* ----------------------- properties of a run --------------------------- *)
DetText(k) == strip(lower(results[k].text))
DetBox(k) == ocr_box_of(results[k].bbox)
TermHit(k) ==
    \E t \in 1..Len(ss_persistent_ignore_terms.v) :
        IsSubstring(ss_persistent_ignore_terms.v[t], DetText(k))
Inside(box, outer) ==
    /\ box[1] >= outer[1] /\ box[2] >= outer[2]
    /\ box[1] + box[3] <= outer[1] + outer[3]
    /\ box[2] + box[4] <= outer[2] + outer[4]
InIgnoreZone(k) ==
    \E z \in 1..Len(abs_ignore_zones) : Inside(DetBox(k), abs_ignore_zones[z])
Ignored(k) == TermHit(k) \/ InIgnoreZone(k)
Qualifies(k, z, thr) == box_overlap(DetBox(k), abs_zones[z].box, thr) = "True"
Qualifying(k, thr) == {z \in 1..Len(abs_zones) : Qualifies(k, z, thr)}
AtDetection == pc = "detections" /\ idx <= Len(results)
OutsidePenalty(text) == Penalty("Text outside allowed zones", text, 20)

\* C2: a detection whose lowercased, trimmed text contains an ignore term
\* is drawn as ignored wherever its box lies; it adds no infraction, leaves
\* the score alone and marks no zone.
C2_TermFirst ==
    [][ (AtDetection /\ TermHit(idx)) =>
            /\ drawn' = Append(drawn, <<DetBox(idx), "blue">>)
            /\ penalties' = penalties
            /\ score' = score
            /\ used_zones' = used_zones
            /\ idx' = idx + 1 ]_vars

C2_Witness ==
    /\ pc = "done"
    /\ \E k \in 1..Len(results) :
          /\ TermHit(k)
          /\ ~InIgnoreZone(k)
          /\ results[k].text # DetText(k)
          /\ Qualifying(k, overlap_threshold) # {}
          /\ drawn[k][2] = "blue"
          /\ \A z \in Qualifying(k, overlap_threshold) : ~used_zones[z].used
    /\ \E k \in 1..Len(results) : TermHit(k) /\ InIgnoreZone(k)
    /\ penalties = missing_zones(used_zones, 1)

MatchedAt(k, thr) == ~Ignored(k) /\ match_zone(abs_zones, DetBox(k), thr, 1) > 0

\* C3: a detection the run matches to a zone is matched at every lower
\* threshold, and a detection the run leaves unmatched is unmatched at
\* every higher threshold.
C3_ThresholdMonotone ==
    [][ AtDetection =>
            /\ (used_zones' # used_zones \/
                    (drawn' = Append(drawn, <<DetBox(idx), "red">>)
                        /\ penalties' = penalties /\ idx' = idx + 1)) =>
                  \A t1 \in Thresholds :
                        t1 < overlap_threshold => MatchedAt(idx, t1)
            /\ penalties' # penalties =>
                  \A t2 \in Thresholds :
                        t2 > overlap_threshold => ~MatchedAt(idx, t2) ]_vars

C3_Witness ==
    /\ pc = "done"
    /\ overlap_threshold = 50
    /\ \E k \in 1..Len(results) :
          /\ MatchedAt(k, 0) /\ MatchedAt(k, 50) /\ ~MatchedAt(k, 51)
          /\ \E z \in 1..Len(used_zones) : used_zones[z].used
    /\ \E k \in 1..Len(results) :
          /\ ~Ignored(k) /\ ~MatchedAt(k, 0)
          /\ penalties[1] = OutsidePenalty(results[k].text)

CountPenalties(p) == Cardinality({k \in 1..Len(penalties) : penalties[k] = p})
UnIgnored == {k \in 1..Len(results) : ~Ignored(k)}
InsideZones(k) == {z \in 1..Len(abs_zones) : Inside(DetBox(k), abs_zones[z].box)}
CoveredAlone(Z) ==
    /\ used_zones[Z].used
    /\ \A k \in 1..Len(penalties) : penalties[k].kind # "Text outside allowed zones"
    /\ \A z \in 1..Len(abs_zones) :
          z # Z => CountPenalties(Penalty("No text found in", abs_zones[z].name, 10)) = 1

\* C4 as claimed: one un-ignored detection, fully inside exactly one zone Z.
C4_AsClaimed ==
    pc = "done" =>
        \A k \in 1..Len(results), Z \in 1..Len(abs_zones) :
            (UnIgnored = {k} /\ InsideZones(k) = {Z}) => CoveredAlone(Z)

\* C4, amended: with exactly one un-ignored detection, whose box has a
\* positive area, lies fully inside exactly one zone Z, and reaches the
\* threshold with no zone defined before Z: Z is covered, there is no
\* 'Text outside allowed zones' infraction, and every other zone has
\* exactly one 'No text found' infraction.
C4_InsideFirstQualifying ==
    pc = "done" =>
        \A k \in 1..Len(results), Z \in 1..Len(abs_zones) :
            ( /\ UnIgnored = {k}
              /\ InsideZones(k) = {Z}
              /\ DetBox(k)[3] * DetBox(k)[4] > 0
              /\ \A z \in 1..(Z - 1) : ~Qualifies(k, z, overlap_threshold) )
            => CoveredAlone(Z)

C4_Witness ==
    /\ pc = "done"
    /\ Len(abs_zones) = 2
    /\ Len(results) = 2
    /\ overlap_threshold = 100
    /\ \E k \in 1..Len(results) :
          /\ UnIgnored = {k}
          /\ InsideZones(k) = {2}
          /\ DetBox(k)[3] * DetBox(k)[4] > 0
          /\ abs_zones[1].box[3] > 0
          /\ CoveredAlone(2)
          /\ Len(penalties) = 1

\* C9: an un-ignored detection marks the first zone, in definition order,
\* whose overlap reaches the threshold, and no other; it gets the one
\* 20-point infraction exactly when no zone qualifies.
C9_FirstQualifyingZone ==
    [][ (AtDetection /\ ~Ignored(idx)) =>
            LET Q == Qualifying(idx, overlap_threshold)
            IN  IF Q # {}
                THEN /\ used_zones' = [used_zones EXCEPT ![SetMin(Q)].used = TRUE]
                     /\ penalties' = penalties
                     /\ score' = score
                ELSE /\ used_zones' = used_zones
                     /\ penalties' = Append(penalties, OutsidePenalty(results[idx].text))
                     /\ score' = score - 20 ]_vars

C9_Witness ==
    /\ pc = "done"
    /\ Len(results) = 2
    /\ UnIgnored = {1, 2}
    /\ Cardinality(Qualifying(1, overlap_threshold)) = 2
    /\ Qualifying(2, overlap_threshold) = {}
    /\ used_zones[1].used
    /\ ~used_zones[2].used
    /\ penalties = <<OutsidePenalty(results[2].text),
                     Penalty("No text found in", abs_zones[2].name, 10)>>
    /\ score = 70

(* ------------- SpecGeom: box_overlap over all small boxes -------------- *)
GeomBoxes == (0..MaxCoord) \X (0..MaxCoord) \X (0..MaxCoord) \X (0..MaxCoord)

InitGeom ==
    /\ FilesAbsent
    /\ NoCall
    /\ SessionEmpty
    /\ NoImage
    /\ RunIdle
    /\ b1 \in GeomBoxes
    /\ b2 \in GeomBoxes
    /\ threshold \in Thresholds
    /\ overlap_result = "pending"

CallBoxOverlap ==
    /\ overlap_result = "pending"
    /\ overlap_result' = box_overlap(b1, b2, threshold)
    /\ UNCHANGED <<b1, b2, threshold, fileVars, callVars, sessVars, inputVars, runVars>>

NextGeom == CallBoxOverlap

SpecGeom == InitGeom /\ [][NextGeom]_vars

Degenerate(b) == b[3] = 0 \/ b[4] = 0

\* C6: a detection box or a zone of width 0 or height 0 never matches, at
\* any threshold including 0, and the division by the detection box's area
\* is never reached with a zero divisor.
C6_DegenerateNeverMatches ==
    overlap_result # "pending" =>
        /\ overlap_result # "ZeroDivisionError"
        /\ (Degenerate(b1) \/ Degenerate(b2)) => overlap_result = "False"

C6_Witness ==
    /\ overlap_result = "False"
    /\ Degenerate(b1)
    /\ ~Degenerate(b2)
    /\ threshold = 0
    /\ b1[1] > b2[1] /\ b1[1] < b2[1] + b2[3]
    /\ b1[2] >= b2[2] /\ b1[2] + b1[4] <= b2[2] + b2[4]

(* ---------- configuration values as the script holds them -------------- *)
\* zones: a dict name -> (x, y, w, h), here a sequence of [name, rect] in
\* insertion order.  Ignore zones: a list of {"name","x","y","w","h"}.
K_name == <<"n", "a", "m", "e">>
IZoneKeys == <<K_name, <<"x">>, <<"y">>, <<"w">>, <<"h">>>>

PyRect(r, ty) ==
    [ty |-> ty, n |-> 0, s |-> <<>>,
     items |-> <<PyNum(r[1]), PyNum(r[2]), PyNum(r[3]), PyNum(r[4])>>,
     keys |-> <<>>]
PyZones(zs) ==
    PyDict([i \in 1..Len(zs) |-> zs[i].name],
           [i \in 1..Len(zs) |-> PyRect(zs[i].rect, "tuple")])
PyTerms(ts) == PyList([i \in 1..Len(ts) |-> PyStr(ts[i])])
PyIgnoreZone(z) ==
    PyDict(IZoneKeys, <<PyStr(z.name), PyNum(z.rect[1]), PyNum(z.rect[2]),
                        PyNum(z.rect[3]), PyNum(z.rect[4])>>)
PyIgnoreZones(izs) == PyList([i \in 1..Len(izs) |-> PyIgnoreZone(izs[i])])

DistinctNames(zs) ==
    \A i, j \in 1..Len(zs) : zs[i].name = zs[j].name => i = j

CfgNames == {<<"A">>, <<"q", "\"">>, <<"\\">>}
CfgRects == {<<1250, 1042, 3047, 210>>, <<0, 0, 5000, 10000>>}
CfgZoneMaps ==
    {zs \in SeqsUpTo([name : CfgNames, rect : CfgRects], MaxZones) :
        DistinctNames(zs)}
CfgTerms == {<<"a">>, <<"\"", "b">>, <<"\\", "\\">>}
CfgTermLists == SeqsUpTo(CfgTerms, MaxTerms)
CfgIgnoreZoneLists ==
    SeqsUpTo([name : {<<"A">>, <<"\\", "\"">>}, rect : CfgRects], MaxIgnoreZones)

(* --------- SpecConfig: one file, saves and loads alternating ----------- *)
\* A save is made on a file that does not exist yet, or over the empty file
\* that a failed save left behind.
MaySave(file, loadCall) ==
    \/ call = "none"
    \/ call = loadCall /\ file = FileOf(<<>>)

InitConfig ==
    /\ FilesAbsent
    /\ NoCall
    /\ GeomIdle
    /\ SessionEmpty
    /\ NoImage
    /\ RunIdle

SaveCuts(v) == {0, Len(json_dump(v)) \div 2, Len(json_dump(v)) - 1}
SaveError(outcome, what) ==
    IF outcome = "ok" THEN <<>> ELSE <<<<"Failed to save", what>>>>

save_presets_to_ignore_file(file, other, v, outcome, cut) ==
    [file |-> file, other |-> write_json(other, v, outcome, cut),
     errors |-> SaveError(outcome, "presets")]

\* save_presets: the new CONFIG_FILE, and what st.error shows.  `other`
\* is IGNORE_FILE, which it leaves alone.
save_presets(file, other, v, outcome, cut) ==
    [file |-> write_json(file, v, outcome, cut), other |-> other,
     errors |-> SaveError(outcome, "presets")]

save_ignore_terms(file, v, outcome, cut) ==
    [file |-> write_json(file, v, outcome, cut),
     errors |-> SaveError(outcome, "ignore terms")]

save_ignore_zones(file, v, outcome, cut) ==
    [file |-> write_json(file, v, outcome, cut),
     errors |-> SaveError(outcome, "ignore zones")]

CallSavePresets ==
    /\ MaySave(config_file, "load_presets")
    /\ \E zs \in CfgZoneMaps, outcome \in SaveOutcomes :
         \E cut \in SaveCuts(PyZones(zs)) :
            LET r == save_presets(config_file, ignore_file, PyZones(zs), outcome, cut)
            IN  /\ config_file' = r.file
                /\ ignore_file' = r.other
                /\ st_errors' = r.errors
                /\ arg' = PyZones(zs)
    /\ call' = "save_presets"
    /\ ret' = Returned(PyNone)
    /\ UNCHANGED <<ignore_zone_file, geomVars, sessVars, inputVars, runVars>>

CallLoadPresets ==
    /\ call \in {"none", "save_presets"}
    /\ call' = "load_presets"
    /\ ret' = load_presets(config_file)
    /\ st_errors' = <<>>
    /\ UNCHANGED <<arg, fileVars, geomVars, sessVars, inputVars, runVars>>

CallSaveIgnoreTerms ==
    /\ MaySave(ignore_file, "load_ignore_terms")
    /\ \E ts \in CfgTermLists, outcome \in SaveOutcomes :
         \E cut \in SaveCuts(PyTerms(ts)) :
            LET r == save_ignore_terms(ignore_file, PyTerms(ts), outcome, cut)
            IN  /\ ignore_file' = r.file
                /\ st_errors' = r.errors
                /\ arg' = PyTerms(ts)
    /\ call' = "save_ignore_terms"
    /\ ret' = Returned(PyNone)
    /\ UNCHANGED <<config_file, ignore_zone_file, geomVars, sessVars, inputVars, runVars>>

CallLoadIgnoreTerms ==
    /\ call \in {"none", "save_ignore_terms"}
    /\ call' = "load_ignore_terms"
    /\ ret' = load_ignore_terms(ignore_file)
    /\ st_errors' = <<>>
    /\ UNCHANGED <<arg, fileVars, geomVars, sessVars, inputVars, runVars>>

CallSaveIgnoreZones ==
    /\ MaySave(ignore_zone_file, "load_ignore_zones")
    /\ \E izs \in CfgIgnoreZoneLists, outcome \in SaveOutcomes :
         \E cut \in SaveCuts(PyIgnoreZones(izs)) :
            LET r == save_ignore_zones(ignore_zone_file, PyIgnoreZones(izs), outcome, cut)
            IN  /\ ignore_zone_file' = r.file
                /\ st_errors' = r.errors
                /\ arg' = PyIgnoreZones(izs)
    /\ call' = "save_ignore_zones"
    /\ ret' = Returned(PyNone)
    /\ UNCHANGED <<config_file, ignore_file, geomVars, sessVars, inputVars, runVars>>

CallLoadIgnoreZones ==
    /\ call \in {"none", "save_ignore_zones"}
    /\ call' = "load_ignore_zones"
    /\ ret' = load_ignore_zones(ignore_zone_file)
    /\ st_errors' = <<>>
    /\ UNCHANGED <<arg, fileVars, geomVars, sessVars, inputVars, runVars>>

NextConfig ==
    \/ CallSavePresets
    \/ CallLoadPresets
    \/ CallSaveIgnoreTerms
    \/ CallLoadIgnoreTerms
    \/ CallSaveIgnoreZones
    \/ CallLoadIgnoreZones

SpecConfig == InitConfig /\ [][NextConfig]_vars

\* Same names, in the same order, with the same four coordinates: the
\* saved value holds tuples, the loaded one lists.
SameZones(loaded, saved) ==
    /\ loaded.ty = "dict"
    /\ loaded.keys = saved.keys
    /\ Len(loaded.items) = Len(saved.items)
    /\ \A i \in 1..Len(saved.items) :
          /\ loaded.items[i].ty = "list"
          /\ loaded.items[i].items = saved.items[i].items

SavedThenLoaded(save, load) ==
    call = save /\ st_errors = <<>> /\ call' = load

\* C7: a load that directly follows a successful save of the same file
\* returns the saved zone names and coordinates, the saved terms, and the
\* saved ignore zones in the saved order.
C7_RoundTrip ==
    [][ /\ SavedThenLoaded("save_presets", "load_presets") =>
            ret'.raised = "none" /\ SameZones(ret'.val, arg)
        /\ SavedThenLoaded("save_ignore_terms", "load_ignore_terms") =>
            ret' = Returned(arg)
        /\ SavedThenLoaded("save_ignore_zones", "load_ignore_zones") =>
            ret' = Returned(arg) ]_vars

C7_Witness ==
    /\ call = "load_ignore_zones"
    /\ ret.raised = "none"
    /\ ret.val = arg
    /\ Len(arg.items) = 2
    /\ arg.items[1].items[1].s = <<"\\", "\"">>
    /\ ignore_zone_file.exists

\* C5 as claimed: no load raises, and a load of an existing file that does
\* not parse returns the empty configuration.
C5_LoadFailSoft ==
    /\ ret.raised = "none"
    /\ (call = "load_presets" /\ config_file.exists
            /\ ~json_load(config_file.toks).ok) => ret.val = PyDict(<<>>, <<>>)
    /\ (call = "load_ignore_terms" /\ ignore_file.exists
            /\ ~json_load(ignore_file.toks).ok) => ret.val = PyList(<<>>)
    /\ (call = "load_ignore_zones" /\ ignore_zone_file.exists
            /\ ~json_load(ignore_zone_file.toks).ok) => ret.val = PyList(<<>>)

(* ------------------ the script (src/app.py 91-290) --------------------- *)
\* lines 95-99
default_zone_defs ==
    <<[name |-> <<"E", "y", "e", "b", "r", "o", "w", " ", "C", "o", "p", "y">>,
       rect |-> <<1250, 1042, 3047, 210>>],
      [name |-> <<"H", "e", "a", "d", "l", "i", "n", "e", " ", "C", "o", "p", "y">>,
       rect |-> <<1250, 1458, 3047, 1458>>],
      [name |-> <<"B", "o", "d", "y", " ", "C", "o", "p", "y">>,
       rect |-> <<1250, 3027, 3047, 500>>]>>

\* What the script reads out of the loaded JSON values.
DictGet(d, key) == d.items[CHOOSE k \in 1..Len(d.keys) : d.keys[k] = key]
FromPyZones(v) ==
    [k \in 1..Len(v.keys) |->
        [name |-> v.keys[k],
         rect |-> <<v.items[k].items[1].n, v.items[k].items[2].n,
                    v.items[k].items[3].n, v.items[k].items[4].n>>]]
FromPyTerms(v) == [k \in 1..Len(v.items) |-> v.items[k].s]
FromPyIgnoreZones(v) ==
    [k \in 1..Len(v.items) |->
        [name |-> DictGet(v.items[k], K_name).s,
         rect |-> <<DictGet(v.items[k], <<"x">>).n, DictGet(v.items[k], <<"y">>).n,
                    DictGet(v.items[k], <<"w">>).n, DictGet(v.items[k], <<"h">>).n>>]]

\* st.session_state["<name>_x" .. "<name>_h"], a dict kept in insertion order
KeyHas(keys, name) == \E k \in 1..Len(keys) : keys[k].name = name
KeyGet(keys, name) == keys[CHOOSE k \in 1..Len(keys) : keys[k].name = name].rect
KeySet(keys, name, rect) ==
    IF KeyHas(keys, name)
    THEN [k \in 1..Len(keys) |->
            IF keys[k].name = name THEN [name |-> name, rect |-> rect] ELSE keys[k]]
    ELSE Append(keys, [name |-> name, rect |-> rect])

\* lines 107-112: a key that is absent gets the default
RECURSIVE init_keys(_, _, _)
init_keys(keys, defs, k) ==
    IF k > Len(defs) THEN keys
    ELSE init_keys(IF KeyHas(keys, defs[k].name) THEN keys
                   ELSE KeySet(keys, defs[k].name, defs[k].rect), defs, k + 1)

\* lines 150-154: every loaded key is overwritten
RECURSIVE set_keys(_, _, _)
set_keys(keys, loaded, k) ==
    IF k > Len(loaded) THEN keys
    ELSE set_keys(KeySet(keys, loaded[k].name, loaded[k].rect), loaded, k + 1)

\* lines 124-140: one widget group per default zone, valued by its keys
zones_of(defs, keys) ==
    [k \in 1..Len(defs) |-> [name |-> defs[k].name, rect |-> KeyGet(keys, defs[k].name)]]

\* str.split(",")
RECURSIVE split_comma(_, _)
split_comma(s, cur) ==
    IF s = <<>> THEN <<cur>>
    ELSE IF Head(s) = "," THEN <<cur>> \o split_comma(Tail(s), <<>>)
    ELSE split_comma(Tail(s), Append(cur, Head(s)))

\* line 177
RECURSIVE new_items_of(_, _)
new_items_of(parts, k) ==
    IF k > Len(parts) THEN <<>>
    ELSE (IF strip(parts[k]) # <<>> THEN <<lower(strip(parts[k]))>> ELSE <<>>)
         \o new_items_of(parts, k + 1)
new_items(input) == new_items_of(split_comma(input, <<>>), 1)

Range(f) == {f[k] : k \in 1..Len(f)}
\* list(set(...)): the elements once each, in an order the hash decides
Orders(S) ==
    {f \in [1..Cardinality(S) -> S] : \A a, b \in 1..Cardinality(S) : f[a] = f[b] => a = b}

\* lines 204-213: the drawn rectangles as ignore zones
Digits == <<"1", "2", "3", "4">>
DrawnName(k) == <<"D", "r", "a", "w", "n", " ", "Z", "o", "n", "e", " ", Digits[k]>>
new_zones_of(objects, size) ==
    [k \in 1..Len(objects) |->
        [name |-> DrawnName(k),
         rect |-> <<(objects[k][1] * Unit) \div size[1], (objects[k][2] * Unit) \div size[2],
                    (objects[k][3] * Unit) \div size[1], (objects[k][4] * Unit) \div size[2]>>]]

\* list.pop(idx)
Pop(l, k) == SubSeq(l, 1, k - 1) \o SubSeq(l, k + 1, Len(l))

SaveCut(v, frac) == frac * (Len(json_dump(v)) \div 2)

\* One pass of the script from line 91 to line 252 under the interaction
\* ev, written as the stages the script goes through.  Each stage takes the
\* session state and files st left by the stages before it and gives the
\* ones the pass ends with, and how it ends: status "continue" into the
\* validation, "rerun" (st.rerun), or "raised" with the exception exc.

\* lines 215-219, 236-240 and 249-252: the ignore zones are replaced by
\* izs and saved
IgnoreZonesSaved(st, izs, sv, status) ==
    [st EXCEPT !.iz = SetTo(izs), !.izf = sv.file, !.errors = st.errors \o sv.errors,
               !.status = status]
SaveIgnoreZones(ev, st, izs, status) ==
    IgnoreZonesSaved(st, izs,
        save_ignore_zones(st.izf, PyIgnoreZones(izs), ev.outcome,
                          SaveCut(PyIgnoreZones(izs), ev.frac)),
        status)

\* lines 175-252: the button handlers of the ignore settings
Handlers(ev, st) ==
    CASE ev.type = "apply_ignore" /\ strip(ev.input) # <<>> ->
            \* lines 176-181
            [st EXCEPT !.ilist = SetTo(ev.order),
                       !.status = IF ev.widget_write = "raises" THEN "raised" ELSE "rerun",
                       !.exc = IF ev.widget_write = "raises"
                               THEN "StreamlitAPIException" ELSE "none"]
      [] ev.type = "save_drawn" /\ st.img # <<0, 0>> /\ ev.objects # <<>> ->
            SaveIgnoreZones(ev, st, st.iz.v \o new_zones_of(ev.objects, st.img), "rerun")
      [] ev.type = "add_zone" /\ strip(ev.name) # <<>> ->
            SaveIgnoreZones(ev, st,
                Append(st.iz.v, [name |-> strip(ev.name), rect |-> ev.rect]), "continue")
      [] ev.type = "delete" ->
            SaveIgnoreZones(ev, st, Pop(st.iz.v, ev.k), "rerun")
      [] OTHER -> [st EXCEPT !.status = "continue"]

\* lines 164-165
TermsLoaded(ev, st, lt) ==
    IF lt.raised # "none" THEN st
    ELSE Handlers(ev, [st EXCEPT !.terms = SetTo(FromPyTerms(lt.val)), !.exc = "none"])

\* lines 159-165
IgnoreSettings(ev, st) ==
    IF st.terms.set
    THEN Handlers(ev, [st EXCEPT !.ilist = IF st.ilist.set THEN st.ilist ELSE SetTo(<<>>),
                                 !.exc = "none"])
    ELSE TermsLoaded(ev,
            [st EXCEPT !.ilist = IF st.ilist.set THEN st.ilist ELSE SetTo(<<>>)],
            load_ignore_terms(st.ign))

\* lines 147-157: Load Preset.  Writing the key of a widget that this run
\* has already created is refused by some Streamlit versions.
PresetLoaded(ev, st, lp2) ==
    IF lp2.raised # "none" THEN st
    ELSE IF lp2.val.keys = <<>> THEN IgnoreSettings(ev, st)
    ELSE IF ev.widget_write = "raises" THEN [st EXCEPT !.exc = "StreamlitAPIException"]
    ELSE IgnoreSettings(ev, [st EXCEPT !.keys = set_keys(st.keys, FromPyZones(lp2.val), 1)])
LoadPresetButton(ev, st) ==
    IF ev.type = "load_preset" THEN PresetLoaded(ev, st, load_presets(st.cfg))
    ELSE IgnoreSettings(ev, st)

\* lines 143-145: Save Current Preset
PresetSaved(ev, st, sv) ==
    LoadPresetButton(ev, [st EXCEPT !.cfg = sv.file, !.ign = sv.other, !.errors = sv.errors])
SavePresetButton(ev, st) ==
    IF ev.type = "save_preset"
    THEN PresetSaved(ev, st,
            save_presets(st.cfg, st.ign, PyZones(st.zones), ev.outcome,
                         SaveCut(PyZones(st.zones), ev.frac)))
    ELSE LoadPresetButton(ev, st)

\* lines 103-140
ZoneWidgets(ev, st, defs, keys1) ==
    SavePresetButton(ev, [st EXCEPT !.keys = keys1, !.zones = zones_of(defs, keys1)])
ZoneDefaults(ev, st, defs) == ZoneWidgets(ev, st, defs, init_keys(st.keys, defs, 1))

\* line 102
PresetsLoaded(ev, st, lp) ==
    IF lp.raised # "none" THEN st
    ELSE ZoneDefaults(ev, st,
            IF lp.val.keys # <<>> THEN FromPyZones(lp.val) ELSE default_zone_defs)

\* lines 91-92, and the widget values the interaction has set
ScriptStart(ev) ==
    [iz |-> IF ss_ignore_zones.set THEN ss_ignore_zones
            ELSE SetTo(FromPyIgnoreZones(load_ignore_zones(ignore_zone_file).val)),
     keys |-> IF ev.type = "edit_zone"
              THEN KeySet(ss_zone_keys, ev.name, ev.rect) ELSE ss_zone_keys,
     thr |-> IF ev.type = "set_threshold" THEN ev.t ELSE overlap_threshold,
     zones |-> zones,
     cfg |-> config_file, ign |-> ignore_file, izf |-> ignore_zone_file,
     terms |-> ss_persistent_ignore_terms, ilist |-> ss_ignore_list,
     errors |-> <<>>, status |-> "raised", exc |-> "JSONDecodeError",
     img |-> IF ev.type = "upload" THEN ev.size ELSE img_size,
     res |-> IF ev.type = "upload" THEN ev.results ELSE results]

ScriptTop(ev) == PresetsLoaded(ev, ScriptStart(ev), load_presets(config_file))

\* The state a pass ending as r leaves, and the start of the validation.
ScriptEnds(r) ==
    /\ ss_ignore_zones' = r.iz
    /\ ss_zone_keys' = r.keys
    /\ overlap_threshold' = r.thr
    /\ zones' = r.zones
    /\ config_file' = r.cfg
    /\ ignore_file' = r.ign
    /\ ignore_zone_file' = r.izf
    /\ ss_persistent_ignore_terms' = r.terms
    /\ ss_ignore_list' = r.ilist
    /\ st_errors' = r.errors
    /\ img_size' = r.img
    /\ results' = r.res
    /\ exception' = r.exc
    /\ IF r.status = "continue" /\ r.img # <<0, 0>>
       THEN StartRun(r.zones, r.iz.v, r.img)
       ELSE /\ pc' = IF r.status = "rerun" THEN "rerun" ELSE "idle"
            /\ UNCHANGED <<idx, score, penalties, used_zones, abs_zones,
                           abs_ignore_zones, drawn>>

\* A script run: the pass above, then lines 255-290 when an image is there.
Script(ev) ==
    /\ events' = IF ev.type = "rerun" THEN events ELSE events + 1
    /\ ScriptEnds(ScriptTop(ev))
    /\ UNCHANGED <<caption, call, arg, ret, geomVars>>

\* The user acts on the page once the script has ended.
CanInteract == pc \in {"idle", "done"} /\ events < MaxEvents

(* --------------------------- interactions ------------------------------ *)
SessThresholds == {50, 100}
EditRects == {<<1000, 1000, 5000, 5000>>}
WidgetWrites == {"ok", "raises"}
SaveFracs == {0}
ApplyInputs == {<<" ">>, <<" ", "A", ",", "a", ",">>, <<"b">>}
CanvasObjects == {<<<<0, 0, 400, 300>>>>}
AddNames == {<<" ">>, <<" ", "z">>}
AddRects == {<<1149, 8958, 8041, 1959>>}
SessImageSizes == {<<800, 300>>}
SessDetections ==
    {[bbox |-> <<<<110, 50>>, <<200, 52>>, <<200, 80>>, <<110, 78>>>>, text |-> <<"A">>],
     [bbox |-> <<<<500, 200>>, <<600, 200>>, <<600, 250>>, <<500, 250>>>>, text |-> <<"b">>]}

\* st.rerun(), or the page is opened or refreshed
Rerun ==
    /\ pc \in {"idle", "done", "rerun"}
    /\ Script([type |-> "rerun"])

SetThreshold ==
    /\ CanInteract
    /\ \E t \in SessThresholds : Script([type |-> "set_threshold", t |-> t])

EditZone ==
    /\ CanInteract
    /\ \E k \in 1..Len(zones), r \in EditRects :
          Script([type |-> "edit_zone", name |-> zones[k].name, rect |-> r])

ClickSavePreset ==
    /\ CanInteract
    /\ \E outcome \in SaveOutcomes, frac \in SaveFracs :
          Script([type |-> "save_preset", outcome |-> outcome, frac |-> frac])

ClickLoadPreset ==
    /\ CanInteract
    /\ \E ww \in WidgetWrites : Script([type |-> "load_preset", widget_write |-> ww])

ApplyIgnoreTexts ==
    /\ CanInteract
    /\ \E input \in ApplyInputs, ww \in WidgetWrites :
          \E order \in Orders(Range(ss_ignore_list.v) \cup Range(new_items(input))) :
              Script([type |-> "apply_ignore", input |-> input, order |-> order,
                      widget_write |-> ww])

ClickSaveDrawnZones ==
    /\ CanInteract
    /\ img_size # <<0, 0>>
    /\ \E objects \in CanvasObjects, outcome \in SaveOutcomes, frac \in SaveFracs :
          Script([type |-> "save_drawn", objects |-> objects, outcome |-> outcome,
                  frac |-> frac])

AddIgnoreZone ==
    /\ CanInteract
    /\ \E name \in AddNames, rect \in AddRects, outcome \in SaveOutcomes,
          frac \in SaveFracs :
          Script([type |-> "add_zone", name |-> name, rect |-> rect,
                  outcome |-> outcome, frac |-> frac])

DeleteIgnoreZone ==
    /\ CanInteract
    /\ \E k \in 1..Len(ss_ignore_zones.v), outcome \in SaveOutcomes, frac \in SaveFracs :
          Script([type |-> "delete", k |-> k, outcome |-> outcome, frac |-> frac])

Upload ==
    /\ CanInteract
    /\ \E size \in SessImageSizes, res \in SeqsUpTo(SessDetections, MaxDetections) :
          Script([type |-> "upload", size |-> size, results |-> res])

\* The files a session may find: none, an empty file left by a failed
\* save, or a file saved earlier.
InitPresetFiles ==
    {NoFile, FileOf(<<>>),
     FileOf(json_dump(PyZones(<<[name |-> <<"A">>, rect |-> <<0, 0, 5000, 10000>>]>>)))}
InitTermFiles == {NoFile, FileOf(<<>>), FileOf(json_dump(PyTerms(<<<<"b">>>>)))}
InitIgnoreZoneFiles ==
    {NoFile, FileOf(<<>>),
     FileOf(json_dump(PyIgnoreZones(
        <<[name |-> <<"z">>, rect |-> <<0, 0, 2500, 10000>>]>>)))}

Init ==
    /\ config_file \in InitPresetFiles
    /\ ignore_file \in InitTermFiles
    /\ ignore_zone_file \in InitIgnoreZoneFiles
    /\ NoCall
    /\ GeomIdle
    /\ SessionEmpty
    /\ NoImage
    /\ RunIdle

Next ==
    \/ Rerun
    \/ SetThreshold
    \/ EditZone
    \/ ClickSavePreset
    \/ ClickLoadPreset
    \/ ApplyIgnoreTexts
    \/ ClickSaveDrawnZones
    \/ AddIgnoreZone
    \/ DeleteIgnoreZone
    \/ Upload
    \/ ProcessDetection
    \/ CheckCoverage
    \/ Report

Spec == Init /\ [][Next]_vars

(* ---------------------- properties of a session ------------------------ *)
ConfigVars == <<config_file, ignore_file, ignore_zone_file, ss_ignore_zones,
                ss_persistent_ignore_terms, ss_ignore_list, ss_zone_keys, zones,
                overlap_threshold>>
InRun == pc \in {"detections", "report"}

\* C8: while a run goes from its detections to its report, the zones, the
\* ignore terms and the ignore zones, in the session and in the files, do
\* not change, nor does anything but the run's own score, infractions,
\* coverage map and overlay; and a run starts with score 100, no infraction
\* and every zone uncovered.
C8_RunLeavesConfigAlone ==
    [][ /\ InRun => UNCHANGED <<ConfigVars, events, inputVars, abs_zones,
                                abs_ignore_zones, st_errors, callVars, geomVars>>
        /\ (pc' = "detections" /\ ~InRun) =>
              /\ score' = 100
              /\ penalties' = <<>>
              /\ Len(used_zones') = Len(zones')
              /\ \A z \in 1..Len(zones') :
                    used_zones'[z] = [name |-> zones'[z].name, used |-> FALSE] ]_vars

C8_Witness ==
    /\ pc = "detections"
    /\ idx = 1
    /\ events = 2
    /\ caption < 100
    /\ score = 100 /\ penalties = <<>>
    /\ Len(used_zones) = 3
    /\ ss_ignore_zones.v # <<>>
    /\ ignore_zone_file.exists

CleanTerm(t) == t # <<>> /\ t = strip(lower(t))

\* C10: 'Apply Ignore Texts' only rewrites ignore_list, whose entries are
\* lowercased, trimmed and distinct; it writes no file; the terms used for
\* suppression are the ones loaded from the ignore-terms file when the
\* session first reached them, and stay as loaded; and a detection is
\* suppressed by a term only when one of those loaded terms is in its text,
\* whatever ignore_list holds.
C10_IgnoreListUnused ==
    [][ /\ \A a, b \in 1..Len(ss_ignore_list'.v) :
              /\ CleanTerm(ss_ignore_list'.v[a])
              /\ ss_ignore_list'.v[a] = ss_ignore_list'.v[b] => a = b
        /\ (ss_ignore_list.set /\ ss_ignore_list' # ss_ignore_list) =>
              UNCHANGED <<config_file, ignore_file, ignore_zone_file>>
        /\ ss_persistent_ignore_terms.set =>
              ss_persistent_ignore_terms' = ss_persistent_ignore_terms
        /\ (~ss_persistent_ignore_terms.set /\ ss_persistent_ignore_terms'.set) =>
              ss_persistent_ignore_terms' =
                    SetTo(FromPyTerms(load_ignore_terms(ignore_file).val))
        /\ (AtDetection /\ ~TermHit(idx) /\ ~InIgnoreZone(idx)) =>
              drawn' = Append(drawn, <<DetBox(idx), "red">>)
        /\ (AtDetection /\ ~TermHit(idx) /\ InIgnoreZone(idx)) =>
              UNCHANGED <<score, penalties, used_zones>> ]_vars

C10_Witness ==
    /\ pc = "done"
    /\ ss_ignore_list.v = <<<<"a">>>>
    /\ ss_persistent_ignore_terms = SetTo(<<>>)
    /\ ~ignore_file.exists
    /\ Len(results) = 1
    /\ IsSubstring(<<"a">>, DetText(1))
    /\ drawn = <<<<DetBox(1), "red">>>>
    /\ used_zones[2].used

(* ------- SpecScore: runs over the default zones and many detections ----- *)
ScoreThresholds == {0, 80, 100}
ScoreTerms == {<<>>, <<<<"b">>>>}

InitScore ==
    /\ FilesAbsent
    /\ NoCall
    /\ GeomIdle
    /\ ss_ignore_zones = SetTo(<<>>)
    /\ ss_persistent_ignore_terms \in {SetTo(t) : t \in ScoreTerms}
    /\ ss_ignore_list = SetTo(<<>>)
    /\ zones = default_zone_defs
    /\ ss_zone_keys = zones
    /\ events = 0
    /\ overlap_threshold \in ScoreThresholds
    /\ img_size \in SessImageSizes
    /\ results \in SeqsUpTo(SessDetections, MaxResults)
    /\ abs_zones = abs_zones_of(zones, img_size)
    /\ abs_ignore_zones = <<>>
    /\ penalties = <<>>
    /\ score = 100
    /\ used_zones = used_zones_init(abs_zones)
    /\ drawn = <<>>
    /\ idx = 1
    /\ pc = "detections"
    /\ caption = 100
    /\ exception = "none"

SpecScore == InitScore /\ [][NextRun]_vars

\* C1 as claimed: the score a run reports is an integer from 0 to 100,
\* floored at 0 before it is shown.
C1_ScoreInRange == pc = "done" => caption \in 0..100

====
